---- MODULE Spec2Model ----
(***************************************************************************)
(* Model of the WiserPin extension's cloud synchronisation:                *)
(*   - SyncService (apps/extension services/sync-service): settings,       *)
(*     status, the in-flight guard, sync(), pullChanges(), pushChanges();  *)
(*   - the Local Store operations of @wiserpin/storage that sync() uses    *)
(*     (listCollections, listPins, addCollection, addPin);                 *)
(*   - the API client's request() and the server's create / findAll for    *)
(*     collections and pins.                                               *)
(* Every await of sync() is a step of its own, so invocations interleave   *)
(* exactly where the event loop lets them.                                 *)
(***************************************************************************)
EXTENDS Integers, Sequences, FiniteSets, TLC

\* ------------------------------------------------------------------ bounds
NumInvocations == 2      \* sync() invocations that can be pending at once
MaxSyncCalls   == 2      \* sync() invocations started in one behaviour
MaxGen         == 3      \* ids generateId() hands out in one behaviour
NumCalls       == 2      \* orchestrator calls that can be under way at once
MaxHandles     == 2      \* interval handles setInterval hands out in one behaviour
MaxPending     == 2      \* timer set-ups, and token requests, that can be pending at once
MaxSyncRequests == 2     \* sync() invocations the orchestrator makes in one behaviour
MaxApiCalls    == 2      \* API requests that change the database in one behaviour
NumAdders      == 1      \* addPin() calls of the extension's pages under way at once
MaxEdits       == 1      \* Local Store calls the extension's pages make in one behaviour

Procs == 1..NumInvocations
Calls == 1..NumCalls
Adders == 1..NumAdders

\* --------------------------------------------------------------- constants
NoId      == 0           \* '' / undefined collectionId
NoTime    == 0           \* lastSyncTime: null
NoError   == "null"      \* error: null
GenBase   == 100         \* generated ids are 101, 102, ...: fresh, never an initial id
PageLimit == 12          \* findAll(): limit = 12
Me        == "me"        \* the user the cached bearer token belongs to
Other     == "other"     \* another user of the API
ServerGenBase == 200     \* ids the database generates are 201, 202, ...
MissingId == 9           \* an id no record has ('non-existent' in the storage tests)

MsgDisabled  == "Sync is disabled"
MsgOffline   == "No internet connection"
MsgNoToken   == "Not authenticated - please sign in first"
Msg401       == "Invalid or expired token"
MsgFetch     == "Failed to fetch"
MsgDuplicate == "Pin with url already exists"
MsgServer    == "Internal server error"
MsgStorage   == "QUOTA_BYTES quota exceeded"
MsgNoListener == "Could not establish connection. Receiving end does not exist."

VARIABLES
  settings,          \* chrome.storage.local[wiserpin_sync_settings]
  status,            \* chrome.storage.local[wiserpin_sync_status]
  broadcast,         \* last SYNC_STATUS_CHANGED snapshot sent, or NoBroadcast
  syncInProgress,    \* SyncService.syncInProgress
  online,            \* navigator.onLine
  token,             \* chrome.storage.local[clerk_session_token]: "none" | "valid"
  localCollections,  \* IndexedDB store 'collections' (keyPath id)
  localPins,         \* IndexedDB store 'pins' (keyPath id)
  remoteCollections, \* server table Collection, in creation order
  remotePins,        \* server table Pin, in creation order
  genCount,          \* ids handed out by generateId() so far
  clock,             \* Date.now(), advanced when it is read
  started,           \* sync() invocations started so far
  inv,               \* per invocation: position in sync() and its locals
  lastResult,        \* how the sync() call that returned last ended
  hist,              \* per invocation: what the call has done so far (observation only)
  lastPass,          \* observation of the pass that finished last
  session,           \* clerkClient.session is set
  tokenRequests,     \* refreshAndSaveToken() calls waiting for session.getToken()
  syncTimer,         \* SyncService.syncTimer: an interval handle, or 0 for null
  armed,             \* handles of the intervals set and not cleared
  handles,           \* interval handles handed out by setInterval so far
  timerSetups,       \* startAutoSync() calls waiting for their getSettings()
  calls,             \* orchestrator calls under way: initialize / enable / disable / updateSettings
  syncRequests,      \* sync() invocations made by the orchestrator and its timers
  disabledDone,      \* a disable() has completed and enabled was not written true since
  response,          \* the API's answer to the request handled last
  apiCalls,          \* API requests handled so far
  serverGen,         \* ids the database has generated so far
  adders,            \* addPin() calls of the extension's pages under way
  edits,             \* Local Store calls made by the extension's pages so far
  storeResult        \* how the Local Store call that returned last ended

vars == << settings, status, broadcast, syncInProgress, online, token,
           localCollections, localPins, remoteCollections, remotePins,
           genCount, clock, started, inv, lastResult, hist, lastPass,
           session, tokenRequests, syncTimer, armed, handles, timerSetups, calls,
           syncRequests, disabledDone, response, apiCalls, serverGen,
           adders, edits, storeResult >>

\* ------------------------------------------------------------ pure helpers
RECURSIVE SeqToSet(_)
SeqToSet(s) == IF s = << >> THEN {} ELSE {Head(s)} \cup SeqToSet(Tail(s))

RECURSIVE Reverse(_)
Reverse(s) == IF s = << >> THEN << >> ELSE Append(Reverse(Tail(s)), Head(s))

Ids(S) == { r.id : r \in S }

RECURSIVE SortById(_)
\* db.getAll(): records in key (id) order
SortById(S) ==
  IF S = {} THEN << >>
  ELSE LET m == CHOOSE r \in S : \A q \in S : r.id <= q.id
       IN  << m >> \o SortById(S \ {m})

Take(s, n) == IF Len(s) <= n THEN s ELSE SubSeq(s, 1, n)

\* { ...current, ...patch }
Merge(current, patch) ==
  [ f \in DOMAIN current |-> IF f \in DOMAIN patch THEN patch[f] ELSE current[f] ]

\* ------------------------------------------------------- records and stores
DEFAULT_SETTINGS ==
  [ enabled |-> FALSE, autoSync |-> TRUE, syncInterval |-> 5, wifiOnly |-> FALSE ]

DefaultStatus ==
  [ isSyncing |-> FALSE, lastSyncTime |-> NoTime, error |-> NoError, pendingChanges |-> 0 ]

\* generateId(): `col_${Date.now()}_${random}` / `pin_${Date.now()}_${random}`
generateId(n) == GenBase + n + 1

\* ---------------------------------------------------------------- server
\* CollectionsService.findAll(userId): where { userId }, orderBy createdAt desc
FindAllCollections(table, userId) ==
  Reverse(SelectSeq(table, LAMBDA c : c.userId = userId))

\* PinsService.findAll(userId) with no query: page 1, limit 12, createdAt desc;
\* request() hands the caller the `data` array of the page
FindAllPins(table, userId) ==
  Take(Reverse(SelectSeq(table, LAMBDA q : q.userId = userId)), PageLimit)

HasId(table, id) == \E i \in 1..Len(table) : table[i].id = id

\* variant of create that writes the dto over a record that exists (an upsert)
CreateCollectionUpsert(table, userId, dto, fresh) ==
  IF dto.id # NoId /\ HasId(table, dto.id)
  THEN [ ok |-> TRUE, msg |-> NoError,
         table |-> [ i \in 1..Len(table) |->
                       IF table[i].id = dto.id THEN [ table[i] EXCEPT !.name = dto.name ]
                                               ELSE table[i] ] ]
  ELSE [ ok |-> TRUE, msg |-> NoError,
         table |-> Append(table, [ id |-> IF dto.id # NoId THEN dto.id ELSE fresh,
                                   name |-> dto.name, userId |-> userId ]) ]

\* CollectionsService.create(userId, dto); fresh is the id the database
\* generates when the dto carries none
CreateCollection(table, userId, dto, fresh) ==
  IF dto.id # NoId
  THEN IF HasId(table, dto.id)
       THEN [ ok |-> TRUE, msg |-> NoError, table |-> table ]
       ELSE [ ok |-> TRUE, msg |-> NoError,
              table |-> Append(table, [ id |-> dto.id, name |-> dto.name, userId |-> userId ]) ]
  ELSE [ ok |-> TRUE, msg |-> NoError,
         table |-> Append(table, [ id |-> fresh, name |-> dto.name, userId |-> userId ]) ]

\* the Pin table's constraints: unique [userId, url], collectionId a foreign key
PinConstraintsHold(table, cols, userId, dto) ==
  /\ ~ \E i \in 1..Len(table) : table[i].userId = userId /\ table[i].url = dto.url
  /\ dto.collectionId = NoId \/ HasId(cols, dto.collectionId)

\* PinsService.create(userId, dto)
CreatePin(table, cols, userId, dto, fresh) ==
  LET row(id) == [ id |-> id, collectionId |-> dto.collectionId, url |-> dto.url, userId |-> userId ]
      owned   == \E i \in 1..Len(cols) : cols[i].id = dto.collectionId /\ cols[i].userId = userId
  IN  IF dto.collectionId # NoId /\ dto.id = NoId /\ ~owned
      THEN [ ok |-> FALSE, msg |-> "Invalid collection", table |-> table ]
      ELSE IF dto.id # NoId
      THEN IF HasId(table, dto.id)
           THEN [ ok |-> TRUE, msg |-> NoError, table |-> table ]
           ELSE IF PinConstraintsHold(table, cols, userId, dto)
                THEN [ ok |-> TRUE, msg |-> NoError, table |-> Append(table, row(dto.id)) ]
                ELSE [ ok |-> FALSE, msg |-> MsgServer, table |-> table ]
      ELSE IF \E i \in 1..Len(table) : table[i].userId = userId /\ table[i].url = dto.url
           THEN [ ok |-> FALSE, msg |-> "You have already saved this URL", table |-> table ]
           ELSE IF PinConstraintsHold(table, cols, userId, dto)
                THEN [ ok |-> TRUE, msg |-> NoError, table |-> Append(table, row(fresh)) ]
                ELSE [ ok |-> FALSE, msg |-> MsgServer, table |-> table ]

\* ------------------------------------------------------------- API client
\* request(): fetch() rejects when the network is down; the auth guard answers
\* 401 when the Authorization header is missing or its token is not valid
RequestFails == ~online \/ token # "valid"
RequestError == IF ~online THEN MsgFetch ELSE Msg401

\* ------------------------------------------------------------ Local Store
\* addCollection(input): { ...input, id: generateId(), createdAt, updatedAt }
addCollection(store, input, n) ==
  LET collection == [ input EXCEPT !.id = generateId(n) ]
  IN  [ id |-> collection.id, store |-> store \cup { collection } ]

\* checkPinExists(url)
checkPinExists(store, url) == \E q \in store : q.url = url

\* variant of addPin that puts the new pin in the place of the one with its url
addPinOverwrite(store, input, n) ==
  LET pin == [ input EXCEPT !.id = generateId(n) ]
  IN  [ ok |-> TRUE, msg |-> NoError, id |-> pin.id,
        store |-> { q \in store : q.url # input.url } \cup { pin } ]

\* addPin(input): { ...input, id: generateId(), createdAt }, after the url check
addPin(store, input, n) ==
  IF checkPinExists(store, input.url)
  THEN [ ok |-> FALSE, msg |-> MsgDuplicate, id |-> NoId, store |-> store ]
  ELSE LET pin == [ input EXCEPT !.id = generateId(n) ]
       IN  [ ok |-> TRUE, msg |-> NoError, id |-> pin.id, store |-> store \cup { pin } ]

\* listCollections() / listPins(): db.getAll()
listAll(store) == SortById(store)

\* ------------------------------------------------------ sync(): its frames
IdleFrame ==
  [ pc |-> "idle", patch |-> [ isSyncing |-> FALSE ], cur |-> DefaultStatus,
    ret |-> "idle", err |-> NoError,
    rCols |-> << >>, rPins |-> << >>, lCols |-> << >>, lPins |-> << >>,
    todoCols |-> << >>, todoPins |-> << >> ]

EmptyHist ==
  [ ops |-> {}, inserted |-> {}, creates |-> << >>,
    pullStart |-> [ reached |-> FALSE, lCols |-> {}, lPins |-> {}, rCols |-> {}, rPins |-> {} ],
    pushStart |-> [ reached |-> FALSE, lCols |-> {}, lPins |-> {}, rCols |-> {}, rPins |-> {} ] ]

NoPass ==
  [ n |-> 0, ok |-> FALSE, clean |-> FALSE, remoteCols |-> {}, remotePins |-> {} ]

\* variants of the guards: without the in-flight guard; with the two guards swapped
GuardOutcomeNoGuard(enabled, inProgress) ==
  IF ~enabled THEN "disabled" ELSE "pass"

GuardOutcomeFlagFirst(enabled, inProgress) ==
  IF inProgress THEN "skipped"
  ELSE IF ~enabled THEN "disabled"
  ELSE "pass"

\* the guards at the head of sync(), evaluated in one turn of the event loop
GuardOutcome(enabled, inProgress) ==
  IF ~enabled THEN "disabled"
  ELSE IF inProgress THEN "skipped"
  ELSE "pass"

\* errorMessage.includes('Invalid or expired token') || errorMessage.includes('Not authenticated')
IsAuthError(msg) == msg \in { Msg401, MsgNoToken }

\* variant of the catch block that records the error only
CatchPatchErrorOnly(msg) ==
  [ error |-> IF IsAuthError(msg) THEN NoError ELSE msg ]

\* variant of the catch block that records every message, authentication errors included
CatchPatchVerbatim(msg) ==
  [ isSyncing |-> FALSE, error |-> msg ]

\* variant of the catch block that clears lastSyncTime
CatchPatchNoTime(msg) ==
  [ isSyncing |-> FALSE, error |-> IF IsAuthError(msg) THEN NoError ELSE msg,
    lastSyncTime |-> NoTime ]

\* the catch block of sync(): updateStatus({ isSyncing: false, error })
CatchPatch(msg) ==
  [ isSyncing |-> FALSE, error |-> IF IsAuthError(msg) THEN NoError ELSE msg ]

\* variant of the catch block that goes on with the push phase
CatchResume(f, msg) ==
  [ f EXCEPT !.pc = "push_local", !.err = msg ]

Catch(f, msg) ==
  [ f EXCEPT !.pc = "status_read", !.patch = CatchPatch(msg), !.ret = "finally", !.err = msg ]

\* variant of the success branch that does not stamp lastSyncTime
SuccessPatchNoTime(now) ==
  [ isSyncing |-> FALSE, error |-> NoError, pendingChanges |-> 0 ]

\* the success branch of sync(): updateStatus({ isSyncing: false, lastSyncTime, error: null, pendingChanges: 0 })
SuccessPatch(now) ==
  [ isSyncing |-> FALSE, lastSyncTime |-> now, error |-> NoError, pendingChanges |-> 0 ]

\* variant of pullChanges() that returns after the collections
PullPcCollectionsOnly(f) ==
  IF f.todoCols # << >> THEN "pull_cols" ELSE "push_local"

\* where pullChanges() stands once its lists are read or a record is added
PullPc(f) ==
  IF f.todoCols # << >> THEN "pull_cols"
  ELSE IF f.todoPins # << >> THEN "pull_pins"
  ELSE "push_local"

\* where pushChanges() stands once its lists are read or a create call is over
PushPc(f) ==
  IF f.todoCols # << >> THEN "push_cols"
  ELSE IF f.todoPins # << >> THEN "push_pins"
  ELSE "push_done"

\* a push loop moves on to its next record
Advance(f, kind) ==
  LET g == IF kind = "collection" THEN [ f EXCEPT !.todoCols = Tail(@) ]
                                  ELSE [ f EXCEPT !.todoPins = Tail(@) ]
  IN  [ g EXCEPT !.pc = PushPc(g) ]

\* variants of the per-record catch: the failure leaves the loops; the failure
\* reaches the catch block of sync()
OnCreateFailureAborts(f, kind) ==
  [ f EXCEPT !.todoCols = << >>, !.todoPins = << >>, !.pc = "push_done" ]

OnCreateFailureThrows(f, kind) ==
  [ f EXCEPT !.pc = "status_read", !.patch = [ isSyncing |-> FALSE, error |-> MsgFetch ],
             !.ret = "finally", !.err = MsgFetch ]

\* the per-record catch of the push loops: log the failure, go on with the next record
OnCreateFailure(f, kind) == Advance(f, kind)

\* variant of the validity test that looks at the collectionId only
InvalidPinCollectionOnly(pin) == pin.collectionId = NoId

\* !pin.collectionId || !pin.page?.url
InvalidPin(pin) == pin.collectionId = NoId \/ pin.url = ""

RECURSIVE PushablePins(_, _)
\* the pins the push loop issues a create call for
PushablePins(pins, remoteIds) ==
  IF pins = << >> THEN << >>
  ELSE IF Head(pins).id \in remoteIds \/ InvalidPin(Head(pins))
       THEN PushablePins(Tail(pins), remoteIds)
       ELSE << Head(pins) >> \o PushablePins(Tail(pins), remoteIds)

Note(p, op) == [ hist EXCEPT ![p].ops = @ \cup {op} ]

\* ----------------------------------------------------------------- state
envVars   == << settings, online, token >>
storeVars == << localCollections, localPins, remoteCollections, remotePins, genCount >>
statusVars == << status, broadcast >>
passVars  == << syncInProgress, clock, started, inv, lastResult, hist, lastPass >>
workerVars == << session, tokenRequests, syncTimer, armed, handles, timerSetups, calls,
                 syncRequests, disabledDone >>
apiVars   == << response, apiCalls, serverGen >>
pageVars  == << adders, edits, storeResult >>

\* the stores a first run can find: locally nothing, an invalid pin, or a
\* collection with an invalid pin and two valid ones, and remotely nothing,
\* a collection, or a collection with a pin in it; the invalid pin lacks its
\* collectionId, or, where its collection exists, its page.url
LocalCollectionPool == { [ id |-> 1, name |-> "A" ] }
LocalPinPool(cols) ==
  << IF cols = {} THEN [ id |-> 13, collectionId |-> NoId, url |-> "c" ]
                  ELSE [ id |-> 13, collectionId |-> 1, url |-> "" ],
     [ id |-> 11, collectionId |-> 1, url |-> "a" ],
     [ id |-> 12, collectionId |-> 1, url |-> "b" ] >>
RemoteCollectionPool == << [ id |-> 3, name |-> "C", userId |-> Me ] >>
RemotePinPool == << [ id |-> 14, collectionId |-> 3, url |-> "d", userId |-> Me ] >>

InitLocalCollections == SUBSET LocalCollectionPool
InitLocalPins(cols) ==
  { S \in { SeqToSet(SubSeq(LocalPinPool(cols), 1, k)) : k \in 0..Len(LocalPinPool(cols)) } :
      /\ \A q \in S : q.collectionId = NoId \/ q.collectionId \in Ids(cols)
      /\ cols # {} => S = SeqToSet(LocalPinPool(cols)) }
InitRemoteCollections == { SubSeq(RemoteCollectionPool, 1, k) : k \in 0..Len(RemoteCollectionPool) }
InitRemotePins(cols) ==
  { s \in { SubSeq(RemotePinPool, 1, k) : k \in 0..Len(RemotePinPool) } :
      \A i \in 1..Len(s) : HasId(cols, s[i].collectionId) }

\* no SYNC_STATUS_CHANGED message was sent
NoBroadcast == [ type |-> "none" ]

\* no sync() was ever invoked
PassIdle ==
  /\ status = DefaultStatus
  /\ broadcast = NoBroadcast
  /\ syncInProgress = FALSE
  /\ clock = 0
  /\ started = 0
  /\ inv = [ p \in Procs |-> IdleFrame ]
  /\ lastResult = "none"
  /\ hist = [ p \in Procs |-> EmptyHist ]
  /\ lastPass = NoPass

\* an orchestrator call that is not under way
IdleCall == [ op |-> "none", pc |-> "idle", cur |-> DEFAULT_SETTINGS ]

\* the background worker has just been loaded
WorkerIdle ==
  /\ session = FALSE
  /\ tokenRequests = 0
  /\ syncTimer = 0
  /\ armed = {}
  /\ handles = 0
  /\ timerSetups = 0
  /\ calls = [ c \in Calls |-> IdleCall ]
  /\ syncRequests = 0
  /\ disabledDone = FALSE

NoResponse == [ op |-> "none" ]

\* the API has handled no request
ApiIdle ==
  /\ response = NoResponse
  /\ apiCalls = 0
  /\ serverGen = 0

\* no page of the extension has called the Local Store
\* what a call of the Local Store's API did: the operation, the id it was given
\* and how it ended ("ok", "undefined", or the name of the error thrown)
StoreAnswer(op, id, result) == [ op |-> op, id |-> id, result |-> result ]

NoStoreCall == StoreAnswer("none", NoId, "none")

IdleAdder == [ pc |-> "idle", input |-> [ id |-> NoId, collectionId |-> NoId, url |-> "" ] ]

PagesIdle ==
  /\ adders = [ a \in Adders |-> IdleAdder ]
  /\ edits = 0
  /\ storeResult = NoStoreCall

Init ==
  /\ settings = DEFAULT_SETTINGS
  /\ online = TRUE
  /\ token = "none"
  /\ localCollections \in InitLocalCollections
  /\ localPins \in InitLocalPins(localCollections)
  /\ remoteCollections \in InitRemoteCollections
  /\ remotePins \in InitRemotePins(remoteCollections)
  /\ genCount = 0
  /\ PassIdle
  /\ WorkerIdle
  /\ ApiIdle
  /\ PagesIdle

\* ----------------------------------------------------------- environment
\* updateSettings({ enabled }): the settings write (enable() / disable() / Settings UI)
UpdateSettings(e) ==
  /\ settings.enabled # e
  /\ settings' = Merge(settings, [ enabled |-> e ])
  /\ UNCHANGED << online, token, storeVars, statusVars, syncInProgress, clock, started,
                  inv, lastResult, hist, lastPass >>
  /\ UNCHANGED << workerVars, apiVars, pageVars >>

\* navigator.onLine changes
SetOnline(b) ==
  /\ online # b
  /\ online' = b
  /\ UNCHANGED << settings, token, storeVars, statusVars, syncInProgress, clock, started,
                  inv, lastResult, hist, lastPass >>
  /\ UNCHANGED << workerVars, apiVars, pageVars >>

\* refreshAndSaveToken() stores a fresh token
RefreshToken ==
  /\ token # "valid"
  /\ token' = "valid"
  /\ UNCHANGED << settings, online, storeVars, statusVars, syncInProgress, clock, started,
                  inv, lastResult, hist, lastPass >>
  /\ UNCHANGED << workerVars, apiVars, pageVars >>

\* sign-out: chrome.storage.local.remove(['clerk_session_token'])
SignOut ==
  /\ token # "none"
  /\ token' = "none"
  /\ UNCHANGED << settings, online, storeVars, statusVars, syncInProgress, clock, started,
                  inv, lastResult, hist, lastPass >>
  /\ UNCHANGED << workerVars, apiVars, pageVars >>

\* ------------------------------------------------------------------ sync()
\* a caller (timer, TRIGGER_SYNC, enable(), initialize()) invokes sync():
\* it runs up to `await this.getSettings()`; the call takes the first free frame
SyncCall(p) ==
  /\ inv[p].pc = "idle"
  /\ \A q \in Procs : q < p => inv[q].pc # "idle"
  /\ started < MaxSyncCalls
  /\ started' = started + 1
  /\ inv' = [ inv EXCEPT ![p] = [ IdleFrame EXCEPT !.pc = "settings" ] ]
  /\ hist' = [ hist EXCEPT ![p] = EmptyHist ]
  /\ UNCHANGED << envVars, storeVars, statusVars, syncInProgress, clock, lastResult, lastPass >>
  /\ UNCHANGED << workerVars, apiVars, pageVars >>

\* the settings arrive: the enabled guard, the in-flight guard, then
\* syncInProgress = true and the call of updateStatus({ isSyncing: true, error: null })
SyncGuards(p) ==
  /\ inv[p].pc = "settings"
  /\ LET outcome == GuardOutcome(settings.enabled, syncInProgress) IN
       IF outcome = "pass"
       THEN /\ syncInProgress' = TRUE
            /\ inv' = [ inv EXCEPT ![p] = [ @ EXCEPT !.pc = "status_read",
                                                      !.patch = [ isSyncing |-> TRUE, error |-> NoError ],
                                                      !.ret = "online" ] ]
            /\ UNCHANGED lastResult
       ELSE /\ inv' = [ inv EXCEPT ![p] = IdleFrame ]
            /\ lastResult' = outcome
            /\ UNCHANGED syncInProgress
  /\ UNCHANGED << envVars, storeVars, statusVars, clock, started, hist, lastPass >>
  /\ UNCHANGED << workerVars, apiVars, pageVars >>

\* updateStatus(): const current = await this.getStatus()
UpdateStatusRead(p) ==
  /\ inv[p].pc = "status_read"
  /\ inv' = [ inv EXCEPT ![p].cur = status, ![p].pc = "status_write" ]
  /\ UNCHANGED << envVars, storeVars, statusVars, syncInProgress, clock, started,
                  lastResult, hist, lastPass >>
  /\ UNCHANGED << workerVars, apiVars, pageVars >>

\* variant of the message that carries the fields of the call only
SnapshotPatchOnly(current, patch) == patch

\* the status of the SYNC_STATUS_CHANGED message: updated = { ...current, ...status }
Snapshot(current, patch) == Merge(current, patch)

\* sendMessage(...).catch(() => {}) is not awaited: with or without a listener
\* updateStatus() returns to its caller
AfterBroadcast(f, listening) == [ f EXCEPT !.pc = f.ret ]

\* updateStatus(): storage.set({ ...current, ...status }), then the broadcast,
\* to a popup that is open or to nobody
UpdateStatusWrite(p) ==
  /\ inv[p].pc = "status_write"
  /\ status' = Merge(inv[p].cur, inv[p].patch)
  /\ broadcast' = Snapshot(inv[p].cur, inv[p].patch)
  /\ \E listening \in BOOLEAN :
       inv' = [ inv EXCEPT ![p] = AfterBroadcast(@, listening) ]
  /\ hist' = Note(p, "statusWrite")
  /\ UNCHANGED << envVars, storeVars, syncInProgress, clock, started, lastResult, lastPass >>
  /\ UNCHANGED << workerVars, apiVars, pageVars >>

\* if (!navigator.onLine) throw; then the token read is issued
CheckOnline(p) ==
  /\ inv[p].pc = "online"
  /\ inv' = [ inv EXCEPT ![p] = IF online THEN [ @ EXCEPT !.pc = "token" ]
                                          ELSE Catch(@, MsgOffline) ]
  /\ UNCHANGED << envVars, storeVars, statusVars, syncInProgress, clock, started,
                  lastResult, hist, lastPass >>
  /\ UNCHANGED << workerVars, apiVars, pageVars >>

\* if (!token) throw; then pullChanges() issues its two list requests
CheckToken(p) ==
  /\ inv[p].pc = "token"
  /\ inv' = [ inv EXCEPT ![p] = IF token # "none" THEN [ @ EXCEPT !.pc = "pull_remote" ]
                                                  ELSE Catch(@, MsgNoToken) ]
  /\ UNCHANGED << envVars, storeVars, statusVars, syncInProgress, clock, started,
                  lastResult, hist, lastPass >>
  /\ UNCHANGED << workerVars, apiVars, pageVars >>

\* pullChanges(): Promise.all([api.pins.list(), api.collections.list()])
PullListRemote(p) ==
  /\ inv[p].pc = "pull_remote"
  /\ inv' = [ inv EXCEPT ![p] =
                IF RequestFails THEN Catch(@, RequestError)
                ELSE [ @ EXCEPT !.pc = "pull_local",
                                !.rPins = FindAllPins(remotePins, Me),
                                !.rCols = FindAllCollections(remoteCollections, Me) ] ]
  /\ hist' = Note(p, "remoteList")
  /\ UNCHANGED << envVars, storeVars, statusVars, syncInProgress, clock, started,
                  lastResult, lastPass >>
  /\ UNCHANGED << workerVars, apiVars, pageVars >>

\* pullChanges(): Promise.all([listPins(), listCollections()]) and the two id sets
PullListLocal(p) ==
  /\ inv[p].pc = "pull_local"
  /\ LET f == [ inv[p] EXCEPT
                  !.lCols = listAll(localCollections),
                  !.lPins = listAll(localPins),
                  !.todoCols = SelectSeq(inv[p].rCols, LAMBDA c : c.id \notin Ids(localCollections)),
                  !.todoPins = SelectSeq(inv[p].rPins, LAMBDA q : q.id \notin Ids(localPins)) ]
     IN  inv' = [ inv EXCEPT ![p] = [ f EXCEPT !.pc = PullPc(f) ] ]
  /\ hist' = [ hist EXCEPT ![p].ops = @ \cup { "localList" },
                           ![p].pullStart = [ reached |-> TRUE,
                                              lCols |-> Ids(localCollections),
                                              lPins |-> Ids(localPins),
                                              rCols |-> Ids(SeqToSet(inv[p].rCols)),
                                              rPins |-> Ids(SeqToSet(inv[p].rPins)) ] ]
  /\ UNCHANGED << envVars, storeVars, statusVars, syncInProgress, clock, started,
                  lastResult, lastPass >>
  /\ UNCHANGED << workerVars, apiVars, pageVars >>

\* pullChanges(): await addCollection(localCollection) for the next remote-only collection
PullCollection(p) ==
  /\ inv[p].pc = "pull_cols"
  /\ genCount < MaxGen
  /\ LET rc == Head(inv[p].todoCols)
         r  == addCollection(localCollections, [ id |-> rc.id, name |-> rc.name ], genCount)
         f  == [ inv[p] EXCEPT !.todoCols = Tail(@) ]
     IN  /\ localCollections' = r.store
         /\ inv' = [ inv EXCEPT ![p] = [ f EXCEPT !.pc = PullPc(f) ] ]
         /\ hist' = [ hist EXCEPT ![p].ops = @ \cup { "localInsert" },
                                  ![p].inserted = @ \cup { [ kind |-> "collection", rid |-> rc.id, lid |-> r.id ] } ]
  /\ genCount' = genCount + 1
  /\ UNCHANGED << envVars, localPins, remoteCollections, remotePins, statusVars,
                  syncInProgress, clock, started, lastResult, lastPass >>
  /\ UNCHANGED << workerVars, apiVars, pageVars >>

\* pullChanges(): await addPin(localPin) for the next remote-only pin
PullPin(p) ==
  /\ inv[p].pc = "pull_pins"
  /\ LET rp == Head(inv[p].todoPins)
         r  == addPin(localPins, [ id |-> rp.id, collectionId |-> rp.collectionId, url |-> rp.url ], genCount)
         f  == [ inv[p] EXCEPT !.todoPins = Tail(@) ]
     IN  /\ r.ok => genCount < MaxGen
         /\ localPins' = r.store
         /\ IF r.ok
            THEN /\ inv' = [ inv EXCEPT ![p] = [ f EXCEPT !.pc = PullPc(f) ] ]
                 /\ genCount' = genCount + 1
                 /\ hist' = [ hist EXCEPT ![p].ops = @ \cup { "localInsert" },
                                          ![p].inserted = @ \cup { [ kind |-> "pin", rid |-> rp.id, lid |-> r.id ] } ]
            ELSE /\ inv' = [ inv EXCEPT ![p] = Catch(@, r.msg) ]
                 /\ genCount' = genCount
                 /\ hist' = Note(p, "localRead")
  /\ UNCHANGED << envVars, localCollections, remoteCollections, remotePins, statusVars,
                  syncInProgress, clock, started, lastResult, lastPass >>
  /\ UNCHANGED << workerVars, apiVars, pageVars >>

\* pushChanges(): Promise.all([listPins(), listCollections()])
PushListLocal(p) ==
  /\ inv[p].pc = "push_local"
  /\ inv' = [ inv EXCEPT ![p].lCols = listAll(localCollections),
                         ![p].lPins = listAll(localPins),
                         ![p].pc = "push_remote" ]
  /\ hist' = Note(p, "localList")
  /\ UNCHANGED << envVars, storeVars, statusVars, syncInProgress, clock, started,
                  lastResult, lastPass >>
  /\ UNCHANGED << workerVars, apiVars, pageVars >>

\* pushChanges(): Promise.all([api.pins.list(), api.collections.list()]) and the two id sets
PushListRemote(p) ==
  /\ inv[p].pc = "push_remote"
  /\ IF RequestFails
     THEN /\ inv' = [ inv EXCEPT ![p] = Catch(@, RequestError) ]
          /\ hist' = Note(p, "remoteList")
     ELSE LET rp == FindAllPins(remotePins, Me)
              rc == FindAllCollections(remoteCollections, Me)
              f  == [ inv[p] EXCEPT
                        !.rPins = rp, !.rCols = rc,
                        !.todoCols = SelectSeq(inv[p].lCols, LAMBDA c : c.id \notin Ids(SeqToSet(rc))),
                        !.todoPins = PushablePins(inv[p].lPins, Ids(SeqToSet(rp))) ]
          IN  /\ inv' = [ inv EXCEPT ![p] = [ f EXCEPT !.pc = PushPc(f) ] ]
              /\ hist' = [ hist EXCEPT ![p].ops = @ \cup { "remoteList" },
                                       ![p].pushStart = [ reached |-> TRUE,
                                                          lCols |-> SeqToSet(inv[p].lCols),
                                                          lPins |-> SeqToSet(inv[p].lPins),
                                                          rCols |-> Ids(SeqToSet(rc)),
                                                          rPins |-> Ids(SeqToSet(rp)) ] ]
  /\ UNCHANGED << envVars, storeVars, statusVars, syncInProgress, clock, started,
                  lastResult, lastPass >>
  /\ UNCHANGED << workerVars, apiVars, pageVars >>

\* pushChanges(): await api.collections.create(apiCollection) inside its try / catch
PushCollection(p) ==
  /\ inv[p].pc = "push_cols"
  /\ LET c   == Head(inv[p].todoCols)
         dto == [ id |-> c.id, name |-> c.name ]
         r   == IF RequestFails
                THEN [ ok |-> FALSE, msg |-> RequestError, table |-> remoteCollections ]
                ELSE CreateCollection(remoteCollections, Me, dto, NoId)
     IN  /\ remoteCollections' = r.table
         /\ inv' = [ inv EXCEPT ![p] = IF r.ok THEN Advance(@, "collection")
                                               ELSE OnCreateFailure(@, "collection") ]
         /\ hist' = [ hist EXCEPT ![p].ops = @ \cup { "remoteCreate" },
                                  ![p].creates = Append(@, [ kind |-> "collection", id |-> dto.id, ok |-> r.ok, dto |-> dto ]) ]
  /\ UNCHANGED << envVars, localCollections, localPins, remotePins, genCount, statusVars,
                  syncInProgress, clock, started, lastResult, lastPass >>
  /\ UNCHANGED << workerVars, apiVars, pageVars >>

\* pushChanges(): await api.pins.create(apiPin) inside its try / catch
PushPin(p) ==
  /\ inv[p].pc = "push_pins"
  /\ LET q   == Head(inv[p].todoPins)
         dto == [ id |-> q.id, collectionId |-> q.collectionId, url |-> q.url ]
         r   == IF RequestFails
                THEN [ ok |-> FALSE, msg |-> RequestError, table |-> remotePins ]
                ELSE CreatePin(remotePins, remoteCollections, Me, dto, NoId)
     IN  /\ remotePins' = r.table
         /\ inv' = [ inv EXCEPT ![p] = IF r.ok THEN Advance(@, "pin")
                                               ELSE OnCreateFailure(@, "pin") ]
         /\ hist' = [ hist EXCEPT ![p].ops = @ \cup { "remoteCreate" },
                                  ![p].creates = Append(@, [ kind |-> "pin", id |-> dto.id, ok |-> r.ok, dto |-> dto ]) ]
  /\ UNCHANGED << envVars, localCollections, localPins, remoteCollections, genCount, statusVars,
                  syncInProgress, clock, started, lastResult, lastPass >>
  /\ UNCHANGED << workerVars, apiVars, pageVars >>

\* both phases are over: updateStatus({ isSyncing: false, lastSyncTime: Date.now(), ... })
SyncSucceed(p) ==
  /\ inv[p].pc = "push_done"
  /\ clock' = clock + 1
  /\ inv' = [ inv EXCEPT ![p].pc = "status_read", ![p].patch = SuccessPatch(clock'),
                         ![p].ret = "finally" ]
  /\ UNCHANGED << envVars, storeVars, statusVars, syncInProgress, started, lastResult, hist, lastPass >>
  /\ UNCHANGED << workerVars, apiVars, pageVars >>

\* finally { this.syncInProgress = false }; sync() resolves, or rethrows the error
SyncFinally(p) ==
  /\ inv[p].pc = "finally"
  /\ syncInProgress' = FALSE
  /\ lastResult' = IF inv[p].err = NoError THEN "ok" ELSE "error"
  /\ lastPass' = [ n |-> lastPass.n + 1, ok |-> inv[p].err = NoError,
                   clean |-> \A i \in 1..Len(hist[p].creates) : hist[p].creates[i].ok,
                   remoteCols |-> Ids(SeqToSet(remoteCollections)),
                   remotePins |-> Ids(SeqToSet(remotePins)) ]
  /\ inv' = [ inv EXCEPT ![p] = IdleFrame ]
  /\ hist' = [ hist EXCEPT ![p] = EmptyHist ]
  /\ UNCHANGED << envVars, storeVars, statusVars, clock, started >>
  /\ UNCHANGED << workerVars, apiVars, pageVars >>

Next ==
  \/ \E e \in BOOLEAN : UpdateSettings(e)
  \/ \E b \in BOOLEAN : SetOnline(b)
  \/ RefreshToken
  \/ SignOut
  \/ \E p \in Procs : SyncCall(p)
  \/ \E p \in Procs : SyncGuards(p)
  \/ \E p \in Procs : UpdateStatusRead(p)
  \/ \E p \in Procs : UpdateStatusWrite(p)
  \/ \E p \in Procs : CheckOnline(p)
  \/ \E p \in Procs : CheckToken(p)
  \/ \E p \in Procs : PullListRemote(p)
  \/ \E p \in Procs : PullListLocal(p)
  \/ \E p \in Procs : PullCollection(p)
  \/ \E p \in Procs : PullPin(p)
  \/ \E p \in Procs : PushListLocal(p)
  \/ \E p \in Procs : PushListRemote(p)
  \/ \E p \in Procs : PushCollection(p)
  \/ \E p \in Procs : PushPin(p)
  \/ \E p \in Procs : SyncSucceed(p)
  \/ \E p \in Procs : SyncFinally(p)

Spec == Init /\ [][Next]_vars


\* ======================================================= background worker
\* The orchestrator's calls and timer, and the token provider, one step per
\* task of the event loop: a step starts where an awaited storage or identity
\* operation completes and runs to the next one. sync() itself is the subject
\* of Spec; here only its invocation is recorded.

\* stopAutoSync(): if (this.syncTimer) { clearInterval(this.syncTimer); this.syncTimer = null }
stopAutoSync(w) ==
  IF w.syncTimer # 0
  THEN [ w EXCEPT !.armed = @ \ { w.syncTimer }, !.syncTimer = 0 ]
  ELSE w

\* startAutoSync(): stopAutoSync(), then getSettings() is issued and its
\* callback is left pending
startAutoSync(w) ==
  [ stopAutoSync(w) EXCEPT !.timerSetups = @ + 1 ]

\* the timer state the orchestrator's synchronous code works on
TimerState == [ syncTimer |-> syncTimer, armed |-> armed, timerSetups |-> timerSetups ]

\* the first free call frame
FreeCall(c) ==
  /\ calls[c].op = "none"
  /\ \A d \in Calls : d < c => calls[d].op # "none"

workerFrame == << online, storeVars, statusVars, passVars, apiVars, pageVars >>

\* syncService.initialize() is called (worker load, onStartup): await getSettings()
InitializeCall(c) ==
  /\ FreeCall(c)
  /\ calls' = [ calls EXCEPT ![c] = [ op |-> "initialize", pc |-> "get", cur |-> DEFAULT_SETTINGS ] ]
  /\ UNCHANGED << settings, token, session, tokenRequests, syncTimer, armed, handles,
                  timerSetups, syncRequests, disabledDone, workerFrame >>

\* initialize() after its getSettings(): startAutoSync() if enabled && autoSync,
\* this.sync() if enabled
InitializeResume(c) ==
  /\ calls[c].op = "initialize" /\ calls[c].pc = "get"
  /\ LET s == settings
         w == IF s.enabled /\ s.autoSync THEN startAutoSync(TimerState) ELSE TimerState
     IN  /\ w.timerSetups <= MaxPending
         /\ s.enabled => syncRequests < MaxSyncRequests
         /\ syncTimer' = w.syncTimer /\ armed' = w.armed /\ timerSetups' = w.timerSetups
         /\ syncRequests' = IF s.enabled THEN syncRequests + 1 ELSE syncRequests
  /\ calls' = [ calls EXCEPT ![c] = IdleCall ]
  /\ UNCHANGED << settings, token, session, tokenRequests, handles, disabledDone, workerFrame >>

\* enable() / disable() is called: updateSettings({ enabled }) awaits getSettings()
UpdateSettingsCall(c, op) ==
  /\ FreeCall(c)
  /\ calls' = [ calls EXCEPT ![c] = [ op |-> op, pc |-> "get", cur |-> DEFAULT_SETTINGS ] ]
  /\ UNCHANGED << settings, token, session, tokenRequests, syncTimer, armed, handles,
                  timerSetups, syncRequests, disabledDone, workerFrame >>

\* updateSettings(): const current = await this.getSettings(); storage.set is issued
UpdateSettingsRead(c) ==
  /\ calls[c].op \in { "enable", "disable" } /\ calls[c].pc = "get"
  /\ calls' = [ calls EXCEPT ![c].cur = settings, ![c].pc = "set" ]
  /\ UNCHANGED << settings, token, session, tokenRequests, syncTimer, armed, handles,
                  timerSetups, syncRequests, disabledDone, workerFrame >>

\* updateSettings() after its storage.set: the timer is restarted or stopped;
\* then enable() invokes sync(), disable() calls stopAutoSync()
UpdateSettingsWrite(c) ==
  /\ calls[c].op \in { "enable", "disable" } /\ calls[c].pc = "set"
  /\ LET updated == Merge(calls[c].cur, [ enabled |-> calls[c].op = "enable" ])
         w1 == IF updated.enabled /\ updated.autoSync THEN startAutoSync(TimerState)
                                                       ELSE stopAutoSync(TimerState)
         w  == IF calls[c].op = "disable" THEN stopAutoSync(w1) ELSE w1
     IN  /\ w.timerSetups <= MaxPending
         /\ calls[c].op = "enable" => syncRequests < MaxSyncRequests
         /\ settings' = updated
         /\ syncTimer' = w.syncTimer /\ armed' = w.armed /\ timerSetups' = w.timerSetups
         /\ syncRequests' = IF calls[c].op = "enable" THEN syncRequests + 1 ELSE syncRequests
         /\ disabledDone' = IF calls[c].op = "disable" THEN TRUE
                            ELSE IF updated.enabled THEN FALSE ELSE disabledDone
  /\ calls' = [ calls EXCEPT ![c] = IdleCall ]
  /\ UNCHANGED << token, session, tokenRequests, handles, workerFrame >>

\* the callback of startAutoSync(): if (s.enabled && s.autoSync) this.syncTimer = setInterval(...)
TimerSetup ==
  /\ timerSetups > 0
  /\ timerSetups' = timerSetups - 1
  /\ IF settings.enabled /\ settings.autoSync
     THEN /\ handles < MaxHandles
          /\ handles' = handles + 1
          /\ armed' = armed \cup { handles' }
          /\ syncTimer' = handles'
     ELSE UNCHANGED << handles, armed, syncTimer >>
  /\ UNCHANGED << settings, token, session, tokenRequests, calls, syncRequests, disabledDone,
                  workerFrame >>

\* an armed interval fires: this.sync()
TimerFire(h) ==
  /\ h \in armed
  /\ syncRequests < MaxSyncRequests
  /\ syncRequests' = syncRequests + 1
  /\ UNCHANGED << settings, token, session, tokenRequests, syncTimer, armed, handles,
                  timerSetups, calls, disabledDone, workerFrame >>

\* the identity provider reports a session: the listener calls refreshAndSaveToken(),
\* which awaits session.getToken()
ClerkSignIn ==
  /\ ~session
  /\ tokenRequests < MaxPending
  /\ session' = TRUE
  /\ tokenRequests' = tokenRequests + 1
  /\ UNCHANGED << settings, token, syncTimer, armed, handles, timerSetups, calls,
                  syncRequests, disabledDone, workerFrame >>

\* the identity provider reports sign-out: the listener removes clerk_session_token
ClerkSignOut ==
  /\ session
  /\ session' = FALSE
  /\ token' = "none"
  /\ UNCHANGED << settings, tokenRequests, syncTimer, armed, handles, timerSetups, calls,
                  syncRequests, disabledDone, workerFrame >>

\* the five-minute interval, TRIGGER_SYNC or ENABLE_SYNC calls refreshAndSaveToken()
\* while a session exists
RefreshCall ==
  /\ session
  /\ tokenRequests < MaxPending
  /\ tokenRequests' = tokenRequests + 1
  /\ UNCHANGED << settings, token, session, syncTimer, armed, handles, timerSetups, calls,
                  syncRequests, disabledDone, workerFrame >>

\* refreshAndSaveToken() after session.getToken(): a token is stored; null or a
\* rejection is logged
GetTokenReturns(got) ==
  /\ tokenRequests > 0
  /\ tokenRequests' = tokenRequests - 1
  /\ token' = IF got THEN "valid" ELSE token
  /\ UNCHANGED << settings, session, syncTimer, armed, handles, timerSetups, calls,
                  syncRequests, disabledDone, workerFrame >>

\* the worker starts with the settings an earlier run persisted
WorkerInit ==
  /\ settings \in { DEFAULT_SETTINGS, [ DEFAULT_SETTINGS EXCEPT !.enabled = TRUE ] }
  /\ online = TRUE
  /\ token = "none"
  /\ localCollections = {} /\ localPins = {}
  /\ remoteCollections = << >> /\ remotePins = << >>
  /\ genCount = 0
  /\ PassIdle
  /\ WorkerIdle
  /\ ApiIdle
  /\ PagesIdle

WorkerNext ==
  \/ \E c \in Calls : InitializeCall(c)
  \/ \E c \in Calls : InitializeResume(c)
  \/ \E c \in Calls, op \in { "enable", "disable" } : UpdateSettingsCall(c, op)
  \/ \E c \in Calls : UpdateSettingsRead(c)
  \/ \E c \in Calls : UpdateSettingsWrite(c)
  \/ TimerSetup
  \/ \E h \in 1..MaxHandles : TimerFire(h)
  \/ ClerkSignIn
  \/ ClerkSignOut
  \/ RefreshCall
  \/ \E got \in BOOLEAN : GetTokenReturns(got)

WorkerSpec == WorkerInit /\ [][WorkerNext]_vars


\* ================================================================== the API
\* The Collections and Pins endpoints, one step per request: the controller
\* hands the service the user of the bearer token. response keeps the answer:
\* its status, the records in its body, and what the request found.
Users == { Me, Other }

Row(table, id) == table[CHOOSE i \in 1..Len(table) : table[i].id = id]

Rows(table) == SeqToSet(table)

\* the HTTP status of a create: 201, or the status of the exception thrown
CreateStatus(r) ==
  IF r.ok THEN 201
  ELSE IF r.msg = "Invalid collection" THEN 403
  ELSE IF r.msg = "You have already saved this URL" THEN 409
  ELSE 500

\* include: { collection: true }
WithCollection(pin, cols) ==
  { pin } \cup { c \in Rows(cols) : c.id = pin.collectionId }

\* include: { pins: ... }
WithPins(col, pins) ==
  { col } \cup { q \in Rows(pins) : q.collectionId = col.id }

Answer(op, u, id, st, body) ==
  [ op |-> op, user |-> u, id |-> id, status |-> st, body |-> body,
    idTaken |-> FALSE, urlTaken |-> FALSE, changed |-> FALSE ]

apiFrame == << settings, online, token, localCollections, localPins, genCount,
               statusVars, passVars, workerVars, pageVars >>

CollectionDtos == [ id : { NoId, 1 }, name : { "A", "B" } ]
PinDtos == [ id : { NoId, 11 }, collectionId : { NoId, 1 }, url : { "a", "b" } ]

\* POST /collections
ApiCreateCollection(u, dto) ==
  /\ apiCalls < MaxApiCalls
  /\ LET fresh == ServerGenBase + serverGen + 1
         r == CreateCollection(remoteCollections, u, dto, fresh)
         id == IF dto.id # NoId THEN dto.id ELSE fresh
     IN  /\ remoteCollections' = r.table
         /\ serverGen' = IF dto.id = NoId THEN serverGen + 1 ELSE serverGen
         /\ response' = [ Answer("createCollection", u, dto.id, CreateStatus(r),
                                 IF r.ok THEN { Row(r.table, id) } ELSE {})
                          EXCEPT !.idTaken = dto.id # NoId /\ HasId(remoteCollections, dto.id),
                                 !.changed = r.table # remoteCollections ]
  /\ apiCalls' = apiCalls + 1
  /\ UNCHANGED << remotePins, apiFrame >>

\* GET /collections
ApiFindAllCollections(u) ==
  /\ response' = Answer("findAllCollections", u, NoId, 200, Rows(FindAllCollections(remoteCollections, u)))
  /\ UNCHANGED << remoteCollections, remotePins, apiCalls, serverGen, apiFrame >>

\* what findOne / update / remove answer before they act: 404, 403, or 0 to go on
Access(table, u, id) ==
  IF ~HasId(table, id) THEN 404
  ELSE IF Row(table, id).userId # u THEN 403
  ELSE 0

\* GET /collections/:id
ApiFindOneCollection(u, id) ==
  /\ LET st == Access(remoteCollections, u, id) IN
       response' = IF st # 0 THEN Answer("findOneCollection", u, id, st, {})
                   ELSE Answer("findOneCollection", u, id, 200,
                               WithPins(Row(remoteCollections, id), remotePins))
  /\ UNCHANGED << remoteCollections, remotePins, apiCalls, serverGen, apiFrame >>

\* PATCH /collections/:id
ApiUpdateCollection(u, id, name) ==
  /\ apiCalls < MaxApiCalls
  /\ LET st == Access(remoteCollections, u, id)
         t  == [ i \in 1..Len(remoteCollections) |->
                   IF remoteCollections[i].id = id
                   THEN [ remoteCollections[i] EXCEPT !.name = name ]
                   ELSE remoteCollections[i] ]
     IN  IF st # 0
         THEN /\ response' = Answer("updateCollection", u, id, st, {})
              /\ UNCHANGED remoteCollections
         ELSE /\ remoteCollections' = t
              /\ response' = [ Answer("updateCollection", u, id, 200, { Row(t, id) })
                               EXCEPT !.changed = t # remoteCollections ]
  /\ apiCalls' = apiCalls + 1
  /\ UNCHANGED << remotePins, serverGen, apiFrame >>

\* DELETE /collections/:id; the referential action of Pin.collectionId is the
\* schema's, which the source does not show: the collection's pins go with it,
\* are detached, or make the delete fail
ApiRemoveCollection(u, id, action) ==
  /\ apiCalls < MaxApiCalls
  /\ LET st == Access(remoteCollections, u, id)
         has == \E i \in 1..Len(remotePins) : remotePins[i].collectionId = id
     IN  IF st # 0
         THEN /\ response' = Answer("removeCollection", u, id, st, {})
              /\ UNCHANGED << remoteCollections, remotePins >>
         ELSE IF has /\ action = "Restrict"
         THEN /\ response' = Answer("removeCollection", u, id, 500, {})
              /\ UNCHANGED << remoteCollections, remotePins >>
         ELSE /\ remoteCollections' = SelectSeq(remoteCollections, LAMBDA c : c.id # id)
              /\ remotePins' =
                   IF action = "Cascade"
                   THEN SelectSeq(remotePins, LAMBDA q : q.collectionId # id)
                   ELSE [ i \in 1..Len(remotePins) |->
                            IF remotePins[i].collectionId = id
                            THEN [ remotePins[i] EXCEPT !.collectionId = NoId ]
                            ELSE remotePins[i] ]
              /\ response' = [ Answer("removeCollection", u, id, 200, { Row(remoteCollections, id) })
                               EXCEPT !.changed = TRUE ]
  /\ apiCalls' = apiCalls + 1
  /\ UNCHANGED << serverGen, apiFrame >>

\* POST /pins
ApiCreatePin(u, dto) ==
  /\ apiCalls < MaxApiCalls
  /\ LET fresh == ServerGenBase + serverGen + 1
         r == CreatePin(remotePins, remoteCollections, u, dto, fresh)
         id == IF dto.id # NoId THEN dto.id ELSE fresh
     IN  /\ remotePins' = r.table
         /\ serverGen' = IF dto.id = NoId /\ r.ok THEN serverGen + 1 ELSE serverGen
         /\ response' = [ Answer("createPin", u, dto.id, CreateStatus(r),
                                 IF r.ok THEN WithCollection(Row(r.table, id), remoteCollections) ELSE {})
                          EXCEPT !.idTaken = dto.id # NoId /\ HasId(remotePins, dto.id),
                                 !.urlTaken = \E i \in 1..Len(remotePins) :
                                                remotePins[i].userId = u /\ remotePins[i].url = dto.url,
                                 !.changed = r.table # remotePins ]
  /\ apiCalls' = apiCalls + 1
  /\ UNCHANGED << remoteCollections, apiFrame >>

\* GET /pins
ApiFindAllPins(u) ==
  /\ response' = Answer("findAllPins", u, NoId, 200,
                        UNION { WithCollection(q, remoteCollections) : q \in Rows(FindAllPins(remotePins, u)) })
  /\ UNCHANGED << remoteCollections, remotePins, apiCalls, serverGen, apiFrame >>

\* GET /pins/:id
ApiFindOnePin(u, id) ==
  /\ LET st == Access(remotePins, u, id) IN
       response' = IF st # 0 THEN Answer("findOnePin", u, id, st, {})
                   ELSE Answer("findOnePin", u, id, 200,
                               WithCollection(Row(remotePins, id), remoteCollections))
  /\ UNCHANGED << remoteCollections, remotePins, apiCalls, serverGen, apiFrame >>

\* the bodies of PATCH /pins/:id: { collectionId } or { url }
PinPatches == { << 1, "" >>, << NoId, "a" >>, << NoId, "b" >> }

\* PATCH /pins/:id with { collectionId } (cid # NoId) or { url }
ApiUpdatePin(u, id, cid, url) ==
  /\ apiCalls < MaxApiCalls
  /\ LET st == Access(remotePins, u, id)
         owned == \E i \in 1..Len(remoteCollections) :
                    remoteCollections[i].id = cid /\ remoteCollections[i].userId = u
         taken == \E i \in 1..Len(remotePins) :
                    remotePins[i].id # id /\ remotePins[i].userId = u /\ remotePins[i].url = url
         t  == [ i \in 1..Len(remotePins) |->
                   IF remotePins[i].id = id
                   THEN IF cid # NoId THEN [ remotePins[i] EXCEPT !.collectionId = cid ]
                                      ELSE [ remotePins[i] EXCEPT !.url = url ]
                   ELSE remotePins[i] ]
     IN  IF st # 0
         THEN /\ response' = Answer("updatePin", u, id, st, {})
              /\ UNCHANGED remotePins
         ELSE IF cid # NoId /\ ~owned
         THEN /\ response' = Answer("updatePin", u, id, 403, {})
              /\ UNCHANGED remotePins
         ELSE IF cid = NoId /\ taken
         THEN /\ response' = [ Answer("updatePin", u, id, 500, {}) EXCEPT !.urlTaken = TRUE ]
              /\ UNCHANGED remotePins
         ELSE /\ remotePins' = t
              /\ response' = [ Answer("updatePin", u, id, 200, WithCollection(Row(t, id), remoteCollections))
                               EXCEPT !.changed = t # remotePins ]
  /\ apiCalls' = apiCalls + 1
  /\ UNCHANGED << remoteCollections, serverGen, apiFrame >>

\* DELETE /pins/:id
ApiRemovePin(u, id) ==
  /\ apiCalls < MaxApiCalls
  /\ LET st == Access(remotePins, u, id) IN
       IF st # 0
       THEN /\ response' = Answer("removePin", u, id, st, {})
            /\ UNCHANGED remotePins
       ELSE /\ remotePins' = SelectSeq(remotePins, LAMBDA q : q.id # id)
            /\ response' = [ Answer("removePin", u, id, 200, { Row(remotePins, id) })
                             EXCEPT !.changed = TRUE ]
  /\ apiCalls' = apiCalls + 1
  /\ UNCHANGED << remoteCollections, serverGen, apiFrame >>

\* an empty database, or one in which a user has a collection with a pin
ServerInit ==
  /\ settings = DEFAULT_SETTINGS
  /\ online = TRUE
  /\ token = "none"
  /\ localCollections = {} /\ localPins = {}
  /\ \/ remoteCollections = << >> /\ remotePins = << >>
     \/ /\ remoteCollections = << [ id |-> 1, name |-> "A", userId |-> Me ] >>
        /\ remotePins = << [ id |-> 11, collectionId |-> 1, url |-> "a", userId |-> Me ] >>
  /\ genCount = 0
  /\ PassIdle
  /\ WorkerIdle
  /\ ApiIdle
  /\ PagesIdle

ServerNext ==
  \/ \E u \in Users, dto \in CollectionDtos : ApiCreateCollection(u, dto)
  \/ \E u \in Users : ApiFindAllCollections(u)
  \/ \E u \in Users, id \in { 1 } : ApiFindOneCollection(u, id)
  \/ \E u \in Users, id \in { 1 }, name \in { "A", "B" } : ApiUpdateCollection(u, id, name)
  \/ \E u \in Users, id \in { 1 }, action \in { "Cascade", "SetNull", "Restrict" } :
       ApiRemoveCollection(u, id, action)
  \/ \E u \in Users, dto \in PinDtos : ApiCreatePin(u, dto)
  \/ \E u \in Users : ApiFindAllPins(u)
  \/ \E u \in Users, id \in { 11 } : ApiFindOnePin(u, id)
  \/ \E u \in Users, id \in { 11 }, patch \in PinPatches :
       ApiUpdatePin(u, id, patch[1], patch[2])
  \/ \E u \in Users, id \in { 11 } : ApiRemovePin(u, id)

ServerSpec == ServerInit /\ [][ServerNext]_vars


\* ================================================= the extension's pages
\* The popup and the options page work on the same Local Store as the
\* background worker's sync(). addPin() runs checkPinExists() and db.add() in
\* two transactions with an await between them, so a page's call is two steps;
\* the calls sync() makes are one step each in Spec because one pass at a time
\* is their only caller there.
pageFrame == << settings, online, token, remoteCollections, remotePins,
                statusVars, passVars, workerVars, apiVars >>

PageInputs == [ id : { NoId }, collectionId : { 1 }, url : { "d" } ]

\* a page calls addPin(input): await checkPinExists(input.page.url)
PageAddPinCheck(a, input) ==
  /\ adders[a].pc = "idle"
  /\ \A b \in Adders : b < a => adders[b].pc # "idle"
  /\ edits < MaxEdits
  /\ edits' = edits + 1
  /\ IF checkPinExists(localPins, input.url)
     THEN /\ storeResult' = StoreAnswer("addPin", NoId, "DuplicateError")
          /\ UNCHANGED adders
     ELSE /\ adders' = [ adders EXCEPT ![a] = [ pc |-> "add", input |-> input ] ]
          /\ UNCHANGED storeResult
  /\ UNCHANGED << localCollections, localPins, genCount, pageFrame >>

\* addPin() after its check: await db.add(STORES.PINS, { ...input, id: generateId(), createdAt })
PageAddPinWrite(a) ==
  /\ adders[a].pc = "add"
  /\ genCount < MaxGen
  /\ localPins' = localPins \cup { [ adders[a].input EXCEPT !.id = generateId(genCount) ] }
  /\ genCount' = genCount + 1
  /\ adders' = [ adders EXCEPT ![a] = IdleAdder ]
  /\ storeResult' = StoreAnswer("addPin", generateId(genCount), "ok")
  /\ UNCHANGED << localCollections, edits, pageFrame >>

\* a page calls updateCollection(id, { name })
PageUpdateCollection(id, name) ==
  /\ edits < MaxEdits
  /\ edits' = edits + 1
  /\ IF id \in Ids(localCollections)
     THEN /\ localCollections' = { IF c.id = id THEN [ c EXCEPT !.name = name ] ELSE c : c \in localCollections }
          /\ storeResult' = StoreAnswer("updateCollection", id, "ok")
     ELSE /\ storeResult' = StoreAnswer("updateCollection", id, "NotFoundError")
          /\ UNCHANGED localCollections
  /\ UNCHANGED << localPins, genCount, adders, pageFrame >>

\* a page calls deleteCollection(id)
PageDeleteCollection(id) ==
  /\ edits < MaxEdits
  /\ edits' = edits + 1
  /\ IF id \in Ids(localCollections)
     THEN /\ localCollections' = { c \in localCollections : c.id # id }
          /\ storeResult' = StoreAnswer("deleteCollection", id, "ok")
     ELSE /\ storeResult' = StoreAnswer("deleteCollection", id, "NotFoundError")
          /\ UNCHANGED localCollections
  /\ UNCHANGED << localPins, genCount, adders, pageFrame >>

\* a page calls deletePin(id)
PageDeletePin(id) ==
  /\ edits < MaxEdits
  /\ edits' = edits + 1
  /\ IF id \in Ids(localPins)
     THEN /\ localPins' = { q \in localPins : q.id # id }
          /\ storeResult' = StoreAnswer("deletePin", id, "ok")
     ELSE /\ storeResult' = StoreAnswer("deletePin", id, "NotFoundError")
          /\ UNCHANGED localPins
  /\ UNCHANGED << localCollections, genCount, adders, pageFrame >>

\* variant of updatePin that puts the record without looking for the old one
PageUpdatePinUpsert(id, url) ==
  /\ edits < MaxEdits
  /\ edits' = edits + 1
  /\ localPins' = { q \in localPins : q.id # id } \cup
                  { [ id |-> id, collectionId |-> NoId, url |-> url ] }
  /\ storeResult' = StoreAnswer("updatePin", id, "ok")
  /\ UNCHANGED << localCollections, genCount, adders, pageFrame >>

\* a page calls updatePin(id, { page: { url } }): id, collectionId and createdAt
\* stay those of the record found
PageUpdatePin(id, url) ==
  /\ edits < MaxEdits
  /\ edits' = edits + 1
  /\ IF id \in Ids(localPins)
     THEN /\ localPins' = { IF q.id = id THEN [ q EXCEPT !.url = url ] ELSE q : q \in localPins }
          /\ storeResult' = StoreAnswer("updatePin", id, "ok")
     ELSE /\ storeResult' = StoreAnswer("updatePin", id, "NotFoundError")
          /\ UNCHANGED localPins
  /\ UNCHANGED << localCollections, genCount, adders, pageFrame >>

\* a page calls getCollection(id): db.get() gives the record or undefined
PageGetCollection(id) ==
  /\ storeResult' = StoreAnswer("getCollection", id,
                                IF id \in Ids(localCollections) THEN "ok" ELSE "undefined")
  /\ UNCHANGED << localCollections, localPins, genCount, adders, edits, pageFrame >>

\* a page calls getPin(id)
PageGetPin(id) ==
  /\ storeResult' = StoreAnswer("getPin", id,
                                IF id \in Ids(localPins) THEN "ok" ELSE "undefined")
  /\ UNCHANGED << localCollections, localPins, genCount, adders, edits, pageFrame >>

\* sync is enabled and signed in; collection 1 exists on both sides with
\* different names, collection 2 exists locally and, remotely, for another
\* user; collection 3 and its pin exist remotely only, pin 11 locally only
PagesInit ==
  /\ settings = [ DEFAULT_SETTINGS EXCEPT !.enabled = TRUE ]
  /\ online = TRUE
  /\ token = "valid"
  /\ localCollections = { [ id |-> 1, name |-> "A" ], [ id |-> 2, name |-> "C" ] }
  /\ localPins = { [ id |-> 11, collectionId |-> 1, url |-> "a" ] }
  /\ remoteCollections = << [ id |-> 1, name |-> "B", userId |-> Me ],
                            [ id |-> 2, name |-> "D", userId |-> Other ],
                            [ id |-> 3, name |-> "C", userId |-> Me ] >>
  /\ remotePins = << [ id |-> 14, collectionId |-> 3, url |-> "d", userId |-> Me ] >>
  /\ genCount = 0
  /\ PassIdle
  /\ WorkerIdle
  /\ ApiIdle
  /\ PagesIdle

PagesNext ==
  \/ \E a \in Adders, input \in PageInputs : PageAddPinCheck(a, input)
  \/ \E a \in Adders : PageAddPinWrite(a)
  \/ \E id \in { 1, MissingId }, name \in { "Z" } : PageUpdateCollection(id, name)
  \/ \E id \in { 1, MissingId } : PageDeleteCollection(id)
  \/ \E id \in { 11, MissingId } : PageDeletePin(id)
  \/ \E id \in { 11, MissingId }, url \in { "z" } : PageUpdatePin(id, url)
  \/ \E id \in { 1, MissingId } : PageGetCollection(id)
  \/ \E id \in { 11, MissingId } : PageGetPin(id)
  \/ \E p \in Procs : SyncCall(p)
  \/ \E p \in Procs : SyncGuards(p)
  \/ \E p \in Procs : UpdateStatusRead(p)
  \/ \E p \in Procs : UpdateStatusWrite(p)
  \/ \E p \in Procs : CheckOnline(p)
  \/ \E p \in Procs : CheckToken(p)
  \/ \E p \in Procs : PullListRemote(p)
  \/ \E p \in Procs : PullListLocal(p)
  \/ \E p \in Procs : PullCollection(p)
  \/ \E p \in Procs : PullPin(p)
  \/ \E p \in Procs : PushListLocal(p)
  \/ \E p \in Procs : PushListRemote(p)
  \/ \E p \in Procs : PushCollection(p)
  \/ \E p \in Procs : PushPin(p)
  \/ \E p \in Procs : SyncSucceed(p)
  \/ \E p \in Procs : SyncFinally(p)

PagesSpec == PagesInit /\ [][PagesNext]_vars


\* ====================================================== storage that fails
\* chrome.storage.local can reject a get or a set (quota, a failing backend).
\* The passes of Spec with one more step: an awaited storage call of
\* updateStatus() rejects.

\* updateStatus() throws. The first call of sync() stands before the try block:
\* the error leaves sync() at once. The call of the success branch is caught
\* by the catch block; the call inside the catch block leaves through finally.
UpdateStatusFails(p) ==
  /\ inv[p].pc \in { "status_read", "status_write" }
  /\ IF inv[p].ret = "online"
     THEN /\ inv' = [ inv EXCEPT ![p] = IdleFrame ]
          /\ hist' = [ hist EXCEPT ![p] = EmptyHist ]
          /\ lastResult' = "error"
     ELSE /\ inv' = [ inv EXCEPT ![p] = IF inv[p].err = NoError
                                        THEN Catch(@, MsgStorage)
                                        ELSE [ @ EXCEPT !.pc = "finally", !.err = MsgStorage ] ]
          /\ UNCHANGED << hist, lastResult >>
  /\ UNCHANGED << envVars, storeVars, statusVars, syncInProgress, clock, started, lastPass >>
  /\ UNCHANGED << workerVars, apiVars, pageVars >>

\* the stores of PagesInit, sync enabled, online and signed in
FaultInit == PagesInit

FaultNext ==
  \/ \E p \in Procs : UpdateStatusFails(p)
  \/ \E p \in Procs : SyncCall(p)
  \/ \E p \in Procs : SyncGuards(p)
  \/ \E p \in Procs : UpdateStatusRead(p)
  \/ \E p \in Procs : UpdateStatusWrite(p)
  \/ \E p \in Procs : CheckOnline(p)
  \/ \E p \in Procs : CheckToken(p)
  \/ \E p \in Procs : PullListRemote(p)
  \/ \E p \in Procs : PullListLocal(p)
  \/ \E p \in Procs : PullCollection(p)
  \/ \E p \in Procs : PullPin(p)
  \/ \E p \in Procs : PushListLocal(p)
  \/ \E p \in Procs : PushListRemote(p)
  \/ \E p \in Procs : PushCollection(p)
  \/ \E p \in Procs : PushPin(p)
  \/ \E p \in Procs : SyncSucceed(p)
  \/ \E p \in Procs : SyncFinally(p)

FaultSpec == FaultInit /\ [][FaultNext]_vars


\* =================================================== a long remote pin list
\* The passes of Spec over a server that holds about a page of the user's
\* pins: one pin, a full page, and one pin more than a page.
RemotePinCounts == { 1, PageLimit, PageLimit + 1 }

\* k pins of the user in collection 3, created in the order of their ids
ManyRemotePins(k) ==
  [ i \in 1..k |-> [ id |-> 13 + i, collectionId |-> 3, url |-> ToString(i), userId |-> Me ] ]

ListingInit ==
  /\ settings = [ DEFAULT_SETTINGS EXCEPT !.enabled = TRUE ]
  /\ online = TRUE
  /\ token = "valid"
  /\ localCollections = {} /\ localPins = {}
  /\ remoteCollections = RemoteCollectionPool
  /\ \E k \in RemotePinCounts : remotePins = ManyRemotePins(k)
  /\ genCount = 0
  /\ PassIdle
  /\ WorkerIdle
  /\ ApiIdle
  /\ PagesIdle

ListingNext ==
  \/ \E p \in Procs : SyncCall(p)
  \/ \E p \in Procs : SyncGuards(p)
  \/ \E p \in Procs : UpdateStatusRead(p)
  \/ \E p \in Procs : UpdateStatusWrite(p)
  \/ \E p \in Procs : CheckOnline(p)
  \/ \E p \in Procs : CheckToken(p)
  \/ \E p \in Procs : PullListRemote(p)
  \/ \E p \in Procs : PullListLocal(p)
  \/ \E p \in Procs : PullCollection(p)
  \/ \E p \in Procs : PullPin(p)
  \/ \E p \in Procs : PushListLocal(p)
  \/ \E p \in Procs : PushListRemote(p)
  \/ \E p \in Procs : PushCollection(p)
  \/ \E p \in Procs : PushPin(p)
  \/ \E p \in Procs : SyncSucceed(p)
  \/ \E p \in Procs : SyncFinally(p)

ListingSpec == ListingInit /\ [][ListingNext]_vars

\* ============================================================== properties
\* an invocation that passed both guards and has not yet left sync()
InFlight(p) == inv[p].pc \notin { "idle", "settings" }

\* a pass whose phases are over and whose status is written: about to return
Finishing(p) == inv[p].pc = "finally"
FinishingOk(p) == Finishing(p) /\ inv[p].err = NoError

PinCreates(p) == SelectSeq(hist[p].creates, LAMBDA c : c.kind = "pin")
FailedCreates(p) == { i \in 1..Len(hist[p].creates) : ~hist[p].creates[i].ok }

\* the records the push phase found local-only when it had read its lists
LocalOnlyCollections(p) ==
  { c.id : c \in { x \in hist[p].pushStart.lCols : x.id \notin hist[p].pushStart.rCols } }
LocalOnlyValidPins(p) ==
  { q.id : q \in { x \in hist[p].pushStart.lPins :
                     x.id \notin hist[p].pushStart.rPins /\ ~InvalidPin(x) } }
TimesCreated(p, kind, id) ==
  Cardinality({ i \in 1..Len(hist[p].creates) :
                  hist[p].creates[i].kind = kind /\ hist[p].creates[i].id = id })

\* C1 - mutual exclusion: at most one reconciliation pass is in flight, and a
\* sync() that reads its settings while another pass is in flight leaves sync()
\* in that step (skipped, or refused as disabled) having made no Local Store
\* call, no Remote Client call and no change of the persisted status.
C1_MutualExclusion ==
  [][ /\ Cardinality({ p \in Procs : InFlight(p)' }) <= 1
      /\ \A p \in Procs :
           ( /\ inv[p].pc = "settings" /\ inv'[p].pc # "settings"
             /\ \E q \in Procs : q # p /\ InFlight(q) )
           => /\ inv'[p].pc = "idle"
              /\ lastResult' \in { "skipped", "disabled" }
              /\ hist'[p].ops = {}
              /\ UNCHANGED << storeVars, statusVars, syncInProgress >> ]_vars

C1_Witness ==
  \E p, q \in Procs : p # q /\ InFlight(q) /\ inv[q].pc = "pull_local" /\ inv[p].pc = "idle" /\ lastResult = "skipped"

\* C2 - never stuck syncing: the persisted isSyncing is true only while a pass
\* is in flight, and a pass that is about to return - after success or after an
\* error of the connectivity check, the token check, the pull or the push
\* phase - has persisted isSyncing = false.
C2_NeverStuckSyncing ==
  /\ status.isSyncing => \E p \in Procs : InFlight(p)
  /\ \A p \in Procs : Finishing(p) => ~status.isSyncing

C2_Witness ==
  /\ \E p \in Procs : Finishing(p) /\ inv[p].err = MsgDuplicate
  /\ ~status.isSyncing /\ status.error = MsgDuplicate

\* C3 - disabled guard: a sync() that finds enabled = false fails with the
\* sync-disabled error in that step, has made no Remote Client and no Local
\* Store call, and leaves the persisted status and the in-flight guard as they were.
C3_DisabledGuard ==
  [][ \A p \in Procs :
        ( inv[p].pc = "settings" /\ inv'[p].pc # "settings" /\ ~settings.enabled )
        => /\ inv'[p].pc = "idle"
           /\ lastResult' = "disabled"
           /\ hist'[p].ops = {}
           /\ UNCHANGED << storeVars, statusVars, syncInProgress >> ]_vars

C3_Witness ==
  \E p, q \in Procs : p # q /\ inv[p].pc = "idle" /\ lastResult = "disabled" /\ InFlight(q) /\ syncInProgress

\* C4 - idempotent pull: a run that follows a successful run inserts no record
\* into the Local Store.
C4_IdempotentPull ==
  \A p \in Procs : ( FinishingOk(p) /\ lastPass.ok ) => hist[p].inserted = {}

\* C5 - pull before push: after a successful run, every record the pull phase
\* inserted is in the Local Store under the remote record's id, and the run made
\* no create call for it.
C5_PulledNotPushed ==
  \A p \in Procs : FinishingOk(p) =>
    \A e \in hist[p].inserted :
      /\ e.rid \in ( IF e.kind = "collection" THEN Ids(localCollections) ELSE Ids(localPins) )
      /\ ~ \E i \in 1..Len(hist[p].creates) :
             hist[p].creates[i].kind = e.kind /\ hist[p].creates[i].id \in { e.rid, e.lid }

\* C6 - ids preserved: the pull phase stores a record under the remote record's
\* id, and a record the push phase created exists remotely under the local id.
C6_IdsPreserved ==
  \A p \in Procs :
    /\ \A e \in hist[p].inserted : e.lid = e.rid
    /\ \A i \in 1..Len(hist[p].creates) :
         hist[p].creates[i].ok =>
           hist[p].creates[i].id \in ( IF hist[p].creates[i].kind = "collection"
                                       THEN Ids(SeqToSet(remoteCollections))
                                       ELSE Ids(SeqToSet(remotePins)) )

\* C7 - mutual supersets: after a run that completes successfully and in which
\* no create call failed, every remote collection and pin id of the user is in
\* the Local Store and every local collection id and valid local pin id is in
\* the remote store.
C7_MutualSupersets ==
  \A p \in Procs : ( FinishingOk(p) /\ FailedCreates(p) = {} ) =>
    /\ Ids(SeqToSet(FindAllCollections(remoteCollections, Me))) \subseteq Ids(localCollections)
    /\ Ids(SeqToSet(SelectSeq(remotePins, LAMBDA q : q.userId = Me))) \subseteq Ids(localPins)
    /\ Ids(localCollections) \subseteq Ids(SeqToSet(remoteCollections))
    /\ Ids({ q \in localPins : ~InvalidPin(q) }) \subseteq Ids(SeqToSet(remotePins))

\* C8 - idempotent push: no two remote records share an id, and a successful
\* run that follows a successful run, no create call having failed in either,
\* leaves the remote id sets as the first run left them.
C8_IdempotentPush ==
  /\ \A i, j \in 1..Len(remoteCollections) : remoteCollections[i].id = remoteCollections[j].id => i = j
  /\ \A i, j \in 1..Len(remotePins) : remotePins[i].id = remotePins[j].id => i = j
  /\ \A p \in Procs :
       ( FinishingOk(p) /\ FailedCreates(p) = {} /\ lastPass.ok /\ lastPass.clean ) =>
         /\ Ids(SeqToSet(remoteCollections)) = lastPass.remoteCols
         /\ Ids(SeqToSet(remotePins)) = lastPass.remotePins

\* the case of C9: the push phase found two valid local-only pins and its
\* second createPin call threw
SecondPinCreateThrew(p) ==
  /\ Cardinality(LocalOnlyValidPins(p)) = 2
  /\ Len(PinCreates(p)) >= 2
  /\ ~PinCreates(p)[2].ok

\* C9 as stated - partial push failure ends in Error: with two local-only pins
\* whose second createPin call throws, the first creation was attempted and the
\* run ends as an error (an error is recorded, sync() fails), isSyncing false.
C9_PartialFailureIsError ==
  \A p \in Procs : ( Finishing(p) /\ SecondPinCreateThrew(p) ) =>
    /\ PinCreates(p)[1].id \in LocalOnlyValidPins(p)
    /\ inv[p].err # NoError
    /\ status.error # NoError
    /\ ~status.isSyncing

\* C9 as amended - with two local-only pins whose second createPin call throws,
\* the first creation was attempted, the failure is logged only, and the run
\* ends as a success: sync() resolves, error is null, lastSyncTime is the
\* completion time, isSyncing is false.
C9_PartialFailureIsSwallowed ==
  \A p \in Procs : ( Finishing(p) /\ SecondPinCreateThrew(p) ) =>
    /\ PinCreates(p)[1].id \in LocalOnlyValidPins(p)
    /\ PinCreates(p)[1].id # PinCreates(p)[2].id
    /\ inv[p].err = NoError
    /\ status.error = NoError
    /\ status.lastSyncTime = clock
    /\ ~status.isSyncing

C9_Witness ==
  \E p \in Procs : Finishing(p) /\ SecondPinCreateThrew(p) /\ PinCreates(p)[1].ok

\* C10 - per-record push independence: when the push loops are over, every
\* local-only collection and every valid local-only pin has had exactly one
\* create call in this pass and nothing else has, whichever create calls failed.
C10_PushIndependence ==
  \A p \in Procs : inv[p].pc = "push_done" =>
    /\ \A id \in LocalOnlyCollections(p) : TimesCreated(p, "collection", id) = 1
    /\ \A id \in LocalOnlyValidPins(p) : TimesCreated(p, "pin", id) = 1
    /\ Len(hist[p].creates) = Cardinality(LocalOnlyCollections(p)) + Cardinality(LocalOnlyValidPins(p))

C10_Witness ==
  \E p \in Procs :
    /\ inv[p].pc = "push_done"
    /\ Len(hist[p].creates) = 3
    /\ ~hist[p].creates[1].ok /\ hist[p].creates[2].ok /\ ~hist[p].creates[3].ok

\* C11 - invalid pin skip: no createPin call, made or about to be made by a push
\* phase, is for a pin whose collectionId is empty or whose page.url is empty.
C11_InvalidPinSkip ==
  \A p \in Procs :
    /\ \A i \in 1..Len(hist[p].creates) :
         hist[p].creates[i].kind = "pin" =>
           hist[p].creates[i].dto.collectionId # NoId /\ hist[p].creates[i].dto.url # ""
    /\ inv[p].pc \in { "push_cols", "push_pins" } =>
         \A i \in 1..Len(inv[p].todoPins) :
           inv[p].todoPins[i].collectionId # NoId /\ inv[p].todoPins[i].url # ""

C11_Witness ==
  \E p \in Procs :
    /\ inv[p].pc = "push_done"
    /\ Len(PinCreates(p)) = 2
    /\ \E q \in hist[p].pushStart.lPins :
         q.url = "" /\ q.collectionId # NoId /\ q.id \notin hist[p].pushStart.rPins

\* the pull phase of the pass found nothing on either side
FoundBothEmpty(p) ==
  /\ hist[p].pullStart.reached
  /\ hist[p].pullStart.lCols = {} /\ hist[p].pullStart.lPins = {}
  /\ hist[p].pullStart.rCols = {} /\ hist[p].pullStart.rPins = {}

\* C12 - success lifecycle: a pass whose pull and push completed without a
\* thrown error returns with the persisted status { isSyncing: false,
\* lastSyncTime: the completion time, error: null, pendingChanges: 0 }; when it
\* found both stores empty it made no remote create and no local insert.
C12_SuccessLifecycle ==
  \A p \in Procs : FinishingOk(p) =>
    /\ status = [ isSyncing |-> FALSE, lastSyncTime |-> clock, error |-> NoError, pendingChanges |-> 0 ]
    /\ status.lastSyncTime # NoTime
    /\ FoundBothEmpty(p) =>
         /\ hist[p].creates = << >> /\ hist[p].inserted = {}
         /\ "remoteCreate" \notin hist[p].ops /\ "localInsert" \notin hist[p].ops
         /\ localCollections = {} /\ localPins = {}

C12_Witness ==
  \E p \in Procs :
    /\ FinishingOk(p) /\ FoundBothEmpty(p)
    /\ lastPass.n = 0
    /\ status.lastSyncTime = 1 /\ remoteCollections = << >> /\ remotePins = << >>

C14_DisableStopsTimer ==
  disabledDone => ( ~settings.enabled /\ armed = {} )

\* C15 - sign-out clears the token: while the identity provider reports no
\* session, no bearer token is cached, also when a refreshAndSaveToken() was
\* waiting for its token at the moment of sign-out.
C15_SignOutClearsToken ==
  ~session => token = "none"

\* the step is the handling of a POST request
IsCreate(op) == apiCalls' # apiCalls /\ response'.op = op

NoTwoWithOneId(table) ==
  \A i, j \in 1..Len(table) : table[i].id = table[j].id => i = j

KeepsRows(old, new) ==
  \A i \in 1..Len(old) : i <= Len(new) /\ new[i] = old[i]

\* C16 - server create-if-absent: a POST /collections or POST /pins leaves
\* every record that exists as it was first created and never makes a second
\* record with an id; when the id it carries exists, it creates nothing and
\* answers with that record.
C16_CreateIfAbsent ==
  [][ /\ IsCreate("createCollection") =>
           /\ KeepsRows(remoteCollections, remoteCollections')
           /\ NoTwoWithOneId(remoteCollections')
           /\ response'.idTaken =>
                /\ remoteCollections' = remoteCollections
                /\ response'.status = 201
                /\ response'.body = { Row(remoteCollections, response'.id) }
      /\ IsCreate("createPin") =>
           /\ KeepsRows(remotePins, remotePins')
           /\ NoTwoWithOneId(remotePins')
           /\ response'.idTaken =>
                /\ remotePins' = remotePins
                /\ response'.status = 201
                /\ Row(remotePins, response'.id) \in response'.body ]_vars

C16_Witness ==
  /\ response.op = "createCollection" /\ response.idTaken /\ response.status = 201
  /\ apiCalls = 2
  /\ Len(remoteCollections) = 1
  /\ \E r \in response.body : r.name = "A"

\* C17 - user data isolation: every record in an answer of the API belongs to
\* the user who asked, and every pin in a collection belongs to the
\* collection's owner.
C17_UserIsolation ==
  /\ response.op # "none" => \A r \in response.body : r.userId = response.user
  /\ \A q \in Rows(remotePins), c \in Rows(remoteCollections) :
       q.collectionId = c.id => q.userId = c.userId

\* C18 - remote URL uniqueness: no two pins of a user have the same url, and
\* a POST /pins for a url the user has saved - one that does not name an
\* existing pin and was not refused for its collection - is answered 409 and
\* changes nothing.
C18_RemoteUrlUniqueness ==
  /\ \A i, j \in 1..Len(remotePins) :
       ( remotePins[i].userId = remotePins[j].userId /\ remotePins[i].url = remotePins[j].url ) => i = j
  /\ ( response.op = "createPin" /\ response.urlTaken /\ ~response.idTaken /\ response.status # 403 ) =>
       ( response.status = 409 /\ ~response.changed )

\* C19 - sync() only inserts: no step changes or removes a record of the
\* remote store - neither a step of a pass nor a page's update or delete of
\* the local copy - and no step of a pass changes or removes a record of the
\* Local Store; records that differ under one id stay as they are.
C19_SyncOnlyInserts ==
  [][ /\ KeepsRows(remoteCollections, remoteCollections')
      /\ KeepsRows(remotePins, remotePins')
      /\ inv' # inv => ( localCollections \subseteq localCollections' /\ localPins \subseteq localPins' ) ]_vars

C19_Witness ==
  \E p \in Procs :
    /\ FinishingOk(p) /\ edits > 0
    /\ hist[p].inserted # {} /\ Len(hist[p].creates) > 0
    /\ \E c \in localCollections : c.id = 1 /\ c.name = "Z"
    /\ Row(remoteCollections, 1).name = "B"

\* C20 - local duplicate-URL rejection: no two pins of the Local Store have
\* the same page.url, whatever addPin calls the pages and the pull phase made.
C20_LocalUrlUniqueness ==
  \A q1, q2 \in localPins : q1.url = q2.url => q1 = q2

\* C21 - deleting a collection deletes its pins: once a deleteCollection(id)
\* of the collection list has succeeded, no local pin has that id as its
\* collectionId.
C21_DeleteCollectionCascades ==
  ( storeResult.op = "deleteCollection" /\ storeResult.result = "ok" ) =>
    ~ \E q \in localPins : q.collectionId = storeResult.id

\* the step is a page's update or delete call of the Local Store
IsStoreWrite ==
  /\ edits' # edits /\ adders' = adders
  /\ storeResult'.op \in { "updatePin", "deletePin", "updateCollection", "deleteCollection" }

\* the step is a page's getPin or getCollection call
IsStoreGet ==
  /\ storeResult' # storeResult
  /\ storeResult'.op \in { "getPin", "getCollection" }

\* the store the call works on does not have the id the call was given
IdMissing ==
  IF storeResult'.op \in { "updatePin", "deletePin", "getPin" }
  THEN storeResult'.id \notin Ids(localPins)
  ELSE storeResult'.id \notin Ids(localCollections)

\* C22 - local not-found handling: updatePin, deletePin, updateCollection and
\* deleteCollection with an id that is not in the store throw NotFoundError,
\* getPin and getCollection give undefined, and the store stays as it was.
C22_NotFoundHandling ==
  [][ /\ ( IsStoreWrite /\ IdMissing ) =>
           /\ storeResult'.result = "NotFoundError"
           /\ localCollections' = localCollections /\ localPins' = localPins
      /\ ( IsStoreGet /\ IdMissing ) =>
           /\ storeResult'.result = "undefined"
           /\ localCollections' = localCollections /\ localPins' = localPins ]_vars

C22_Witness ==
  /\ storeResult = StoreAnswer("updatePin", MissingId, "NotFoundError")
  /\ edits = 1
  /\ MissingId \notin Ids(localPins) /\ 11 \in Ids(localPins)

\* the steps of pullChanges() and of pushChanges()
PullPcs == { "pull_remote", "pull_local", "pull_cols", "pull_pins" }
PushPcs == { "push_local", "push_remote", "push_cols", "push_pins", "push_done" }

\* the remote ids the pull phase has inserted into the Local Store, the local
\* ids they were stored under
PulledIds(p, kind) == { i.rid : i \in { j \in hist[p].inserted : j.kind = kind } }
StoredIds(p, kind) == { i.lid : i \in { j \in hist[p].inserted : j.kind = kind } }

\* pullChanges() has read its lists and inserted every remote-only record
PullComplete(p) ==
  /\ inv[p].pc \notin PullPcs
  /\ hist[p].pullStart.reached
  /\ PulledIds(p, "collection") = hist[p].pullStart.rCols \ hist[p].pullStart.lCols
  /\ PulledIds(p, "pin") = hist[p].pullStart.rPins \ hist[p].pullStart.lPins

\* C23 - pull precedes push: a pass that has started its push phase has
\* finished every list call and insert of its pull phase, and the lists the
\* push phase compares were read after those inserts (they contain them).
C23_PullPrecedesPush ==
  \A p \in Procs :
    /\ ( inv[p].pc \in PushPcs \/ hist[p].pushStart.reached \/ hist[p].creates # << >> ) =>
         PullComplete(p)
    /\ hist[p].creates # << >> => hist[p].pushStart.reached
    /\ hist[p].pushStart.reached =>
         /\ StoredIds(p, "collection") \subseteq Ids(hist[p].pushStart.lCols)
         /\ StoredIds(p, "pin") \subseteq Ids(hist[p].pushStart.lPins)
         /\ hist[p].pullStart.rCols \subseteq hist[p].pushStart.rCols
         /\ hist[p].pullStart.rPins \subseteq hist[p].pushStart.rPins

C23_Witness ==
  \E p \in Procs :
    /\ hist[p].pushStart.reached /\ hist[p].creates # << >>
    /\ PulledIds(p, "collection") # {} /\ PulledIds(p, "pin") # {}

\* the records the pass has written so far are in the stores
WrittenStays(p) ==
  /\ StoredIds(p, "collection") \subseteq Ids(localCollections)
  /\ StoredIds(p, "pin") \subseteq Ids(localPins)
  /\ \A i \in 1..Len(hist[p].creates) :
       hist[p].creates[i].ok =>
         HasId(IF hist[p].creates[i].kind = "collection" THEN remoteCollections ELSE remotePins,
               hist[p].creates[i].id)

Settled ==
  /\ \A c \in Calls : calls[c].op = "none"
  /\ timerSetups = 0

\* C25 - periodic scheduling follows settings: once the settings changes have
\* settled, an interval that invokes sync() is armed only if enabled &&
\* autoSync, and one is armed if enabled && autoSync and the orchestrator has
\* been started (initialize() or enable() has invoked sync()).
C25_TimerFollowsSettings ==
  Settled =>
    /\ armed # {} => ( settings.enabled /\ settings.autoSync )
    /\ ( settings.enabled /\ settings.autoSync /\ syncRequests > 0 ) => armed # {}

\* C29 - single timer: at every moment at most one interval is armed and it
\* is the one syncTimer refers to, so stopAutoSync() can clear every interval.
C29_SingleTimer ==
  /\ Cardinality(armed) <= 1
  /\ armed \subseteq { syncTimer }

\* C26 - precondition aborts: a pass that found the device offline or no
\* cached token makes no Remote Client call and no Local Store call, leaves
\* lastSyncTime at the completion time of the last successful pass, and has
\* written isSyncing = false when it returns.
C26_PreconditionAbort ==
  \A p \in Procs :
    inv[p].err \in { MsgOffline, MsgNoToken } =>
      /\ hist[p].ops \subseteq { "statusWrite" }
      /\ hist[p].inserted = {} /\ hist[p].creates = << >>
      /\ ~ hist[p].pullStart.reached /\ ~ hist[p].pushStart.reached
      /\ status.lastSyncTime = clock
      /\ Finishing(p) => ~ status.isSyncing

C26_Witness ==
  \E p \in Procs :
    /\ Finishing(p) /\ inv[p].err = MsgOffline
    /\ clock > 0 /\ status.lastSyncTime = clock
    /\ remoteCollections # << >>

\* C27 - status broadcast: the last SYNC_STATUS_CHANGED snapshot sent is the
\* persisted status (none was sent while nothing was persisted), and no pass
\* fails because nobody listened.
C27_StatusBroadcast ==
  /\ \/ broadcast = status
     \/ broadcast = NoBroadcast /\ status = DefaultStatus
  /\ \A p \in Procs : inv[p].err # MsgNoListener

C27_Witness ==
  /\ broadcast = status
  /\ status.lastSyncTime # NoTime /\ status.error = MsgFetch

\* C28 - the in-flight guard is always released: syncInProgress is true only
\* while an invocation of sync() that passed the guards is executing, also
\* when a storage call of updateStatus() has failed.
C28_GuardReleased ==
  syncInProgress => \E p \in Procs : InFlight(p)

\* the ids of the pins the user owns on the server
OwnedRemotePins == { remotePins[i].id : i \in { j \in 1..Len(remotePins) : remotePins[j].userId = Me } }

\* C30 - complete remote listing: the remote pin list a phase has just read,
\* and compares against, holds every pin the user owns on the server.
C30_CompleteRemoteListing ==
  \A p \in Procs :
    /\ inv[p].pc = "pull_local" => Ids(SeqToSet(inv[p].rPins)) = OwnedRemotePins
    /\ ( hist[p].pushStart.reached /\ hist[p].creates = << >> ) =>
         hist[p].pushStart.rPins = OwnedRemotePins

====
